---- MODULE Spec2Model ----
(***************************************************************************)
(* kauldron training loop (kauldron/train/train_lib.py): train_impl and    *)
(* _enum_steps_with_hooks as a state machine.  One process runs            *)
(* train_impl; when it has returned or died, a new process may be started  *)
(* on the same checkpoint directory (Restart), any number of times.        *)
(* SpecHosts is the multi-host run up to the final barrier, SpecOneRun one *)
(* run under fairness, and SpecRepr the cycle-safe printing of a           *)
(* ConfigDict (kauldron/konfig/configdict_base.py).                        *)
(***************************************************************************)
EXTENDS Integers, Sequences, FiniteSets, TLC

\* ---------------------------------------------------------------- bounds
MaxTrainSteps == 2

MaxEvery == 2

NumEvals == 1

\* Optional[int] = None
None == -1

OptSteps == {None} \cup (0 .. MaxTrainSteps + 1)

VARIABLES
    cfg,          \* the Trainer's configuration fields read by train_impl
    ckpts,        \* the checkpoint directory: step -> saved CheckpointState
    pc,           \* control point of train_impl
    initial_step, \* train_impl local
    total_steps,  \* _enum_steps_with_hooks local
    hooks,        \* _enum_steps_with_hooks local
    i,            \* loop variable
    ev,           \* index of the next evaluator in trainer.evals.values()
    state,        \* TrainState
    timer,        \* PerformanceTimer
    ds_iter,      \* dataset iterator
    batch,        \* train_impl local
    aux,          \* Auxiliaries of the last step, or NoAux
    guard,        \* jax transfer guard in force
    exc,          \* exception that left train_impl, "none" if none
    visited,      \* the indices yielded by _enum_steps_with_hooks, in order
    log,          \* calls made to the collaborators by this process, in order
    hosts         \* the host processes of a multi-host run: where each is

\* ConfigDict.__repr__ (kauldron/konfig/configdict_base.py)
VARIABLES
    graph,        \* the objects reachable from the ConfigDict being printed
    tracker,      \* _VisitedTracker: count, pyid_to_id, pyid_was_repr
    stack,        \* the containers whose children are being traversed
    phase,        \* control point of build_repr
    trace         \* what the two passes did, in order

repr_vars == <<graph, tracker, stack, phase, trace>>

vars == <<cfg, ckpts, pc, initial_step, total_steps, hooks, i, ev, state,
          timer, ds_iter, batch, aux, guard, exc, visited, log, hosts,
          repr_vars>>

NoAux == [step |-> None, error |-> FALSE, losses |-> FALSE,
          metrics |-> FALSE, summaries |-> FALSE]

Event(op, step, arg) == [op |-> op, step |-> step, arg |-> arg]

\* ------------------------------------------------------- pure functions

initial_step_of_next_step(latest_step) ==
    IF latest_step = None THEN 0 ELSE latest_step + 1

\* initial_step = 0 if latest_step is None else latest_step
initial_step_of(latest_step) == IF latest_step = None THEN 0 ELSE latest_step

Min(a, b) == IF a < b THEN a ELSE b

total_steps_no_plus_one(num_train_steps, stop_after_steps) ==
    IF stop_after_steps # None
        THEN Min(num_train_steps, stop_after_steps)
        ELSE num_train_steps

\* total_steps = num_train_steps + 1, cut by stop_after_steps when given
total_steps_of(num_train_steps, stop_after_steps) ==
    IF stop_after_steps # None
        THEN Min(num_train_steps + 1, stop_after_steps)
        ELSE num_train_steps + 1

log_summaries(step) == step % cfg.log_summaries_every = 0

log_metrics(step) == step % cfg.log_metrics_every = 0

log_any_metrics_only(step) == log_metrics(step)

log_any(step) == log_metrics(step) \/ log_summaries(step)

\* ckpt.latest_step: the newest checkpoint of the directory, None if empty
latest_step ==
    IF DOMAIN ckpts = {} THEN None
    ELSE CHOOSE k \in DOMAIN ckpts : \A m \in DOMAIN ckpts : m <= k

\* checkpoint_state.CheckpointState(state, timer, ds_iter)
CheckpointState(s, t, d) == [state |-> s, timer |-> t, ds_iter |-> d]

\* PerformanceTimer as stored in a checkpoint: the step number reached
TimerSnapshot(t) == [step_num |-> t.initial_step_num + t.finished]

\* Checkpointer.save(cs, step): the directory with cs stored under step
Checkpointer_save(cs, step) ==
    [k \in DOMAIN ckpts \cup {step} |->
        IF k = step
           THEN [state |-> cs.state, timer |-> TimerSnapshot(cs.timer),
                 ds_iter |-> cs.ds_iter]
           ELSE ckpts[k]]

\* Checkpointer.restore(cs, noop_if_missing=True): the newest checkpoint,
\* or cs unchanged when the directory holds none
Checkpointer_restore(cs) ==
    IF latest_step = None
       THEN cs
       ELSE [state |-> ckpts[latest_step].state,
             timer |-> [initial_step_num |-> ckpts[latest_step].timer.step_num,
                        finished |-> 0, excluded |-> FALSE],
             ds_iter |-> ckpts[latest_step].ds_iter]

\* utils.enum_iter(..., init_step, total_steps): the indices it enumerates
enum_iter(init_step, total) == init_step .. total - 1

\* ------------------------------------------------------- control points

\* the loop body of train_impl, in program order; "hooks" is the code of
\* _enum_steps_with_hooks that runs when the generator is resumed
BodyOrder == <<"exclude_enter", "save", "eval", "fetch", "device_put", "step",
               "finish_step", "checkify", "write", "hooks">>

BodyOrder_fetch_before_save ==
    <<"exclude_enter", "fetch", "device_put", "save", "eval", "step",
      "finish_step", "checkify", "write", "hooks">>

BodyOrder_write_before_checkify ==
    <<"exclude_enter", "save", "eval", "fetch", "device_put", "step",
      "finish_step", "write", "checkify", "hooks">>

BodyOrder_eval_after_step ==
    <<"exclude_enter", "save", "fetch", "device_put", "step", "eval",
      "finish_step", "checkify", "write", "hooks">>

BodyOrder_checkify_before_finish_step ==
    <<"exclude_enter", "save", "eval", "fetch", "device_put", "step",
      "checkify", "finish_step", "write", "hooks">>

BodyOrder_save_after_step ==
    <<"exclude_enter", "eval", "fetch", "device_put", "step",
      "finish_step", "checkify", "write", "save", "hooks">>

Succ(order, p) ==
    LET k == CHOOSE n \in 1 .. Len(order) : order[n] = p
    IN  IF k = Len(order) THEN "enum_next" ELSE order[k + 1]

NextPc_fetch_before_save(p) == Succ(BodyOrder_fetch_before_save, p)

NextPc_write_before_checkify(p) == Succ(BodyOrder_write_before_checkify, p)

NextPc_eval_after_step(p) == Succ(BodyOrder_eval_after_step, p)

NextPc_checkify_before_finish_step(p) ==
    Succ(BodyOrder_checkify_before_finish_step, p)

NextPc_save_after_step(p) == Succ(BodyOrder_save_after_step, p)

\* the statement that follows p in the loop body
NextPc(p) == Succ(BodyOrder, p)

\* control points at which a collaborator is called and may raise
Failable == {"restore", "startup_writes", "save", "eval", "fetch", "step",
             "write", "hooks"}

Append1(op, step, arg) == Append(log, Event(op, step, arg))

\* ----------------------------------------------------------------- Init

\* number of host processes of the multi-host run
NumHosts == 3

Hosts == 1 .. NumHosts

\* every host is about to enter the loop of train_impl
HostsAtStart == [h \in Hosts |-> [pc |-> "loop", i |-> 0]]

\* _VisitedTracker(): count starts at 1 (__post_init__), nothing tracked
NewTracker == [count |-> 1,
               pyid_to_id |-> [n \in {} |-> None],
               pyid_was_repr |-> {}]

\* no ConfigDict is being printed
NoRepr ==
    /\ graph = <<>>
    /\ tracker = NewTracker
    /\ stack = <<>>
    /\ phase = "idle"
    /\ trace = <<>>

\* the locals of train_impl before its first statement
InitLocals ==
    /\ ckpts = [k \in {} |-> 0]
    /\ pc = "setup"
    /\ initial_step = 0
    /\ total_steps = 0
    /\ hooks = <<>>
    /\ i = None
    /\ ev = 1
    /\ state = [step |-> 0]
    /\ timer = [initial_step_num |-> 0, finished |-> 0, excluded |-> FALSE]
    /\ ds_iter = [cursor |-> 0]
    /\ batch = None
    /\ aux = NoAux
    /\ guard = "off"
    /\ exc = "none"
    /\ visited = <<>>
    /\ log = <<>>

Init ==
    /\ cfg \in [num_train_steps : {None} \cup (0 .. MaxTrainSteps),
                stop_after_steps : OptSteps,
                log_metrics_every : 1 .. MaxEvery,
                log_summaries_every : 1 .. MaxEvery,
                checkify : BOOLEAN,
                is_lead_host : BOOLEAN,
                jax_disable_jit : BOOLEAN]
    /\ InitLocals
    /\ hosts = HostsAtStart
    /\ NoRepr

\* -------------------------------------------------------------- actions

\* train_impl, up to the restore: read ckpt.latest_step, trainstep.init,
\* PerformanceTimer(initial_step_num=initial_step, ...), iter(train_ds)
setup ==
    /\ pc = "setup"
    /\ initial_step' = initial_step_of(latest_step)
    /\ state' = [step |-> 0]
    /\ timer' = [initial_step_num |-> initial_step_of(latest_step),
                 finished |-> 0, excluded |-> FALSE]
    /\ ds_iter' = [cursor |-> 0]
    /\ pc' = "restore"
    /\ UNCHANGED <<repr_vars, hosts, cfg, visited, ckpts, total_steps, hooks, i, ev, batch, aux,
                   guard, exc, log>>

ckpt_restore_writes_only_without_checkpoint ==
    /\ pc = "restore"
    /\ LET restored == Checkpointer_restore(CheckpointState(state, timer, ds_iter))
       IN  /\ state' = restored.state
           /\ timer' = restored.timer
           /\ ds_iter' = restored.ds_iter
    /\ log' = Append1("restore", None, latest_step)
    /\ pc' = IF latest_step = None THEN "startup_writes" ELSE "guard_enter"
    /\ UNCHANGED <<repr_vars, hosts, cfg, visited, ckpts, initial_step, total_steps, hooks, i, ev,
                   batch, aux, guard, exc>>

\* (state, timer, ds_iter) = ckpt.restore(CheckpointState(...),
\*                                        noop_if_missing=True)
ckpt_restore_drops_ds_iter ==
    /\ pc = "restore"
    /\ LET restored == Checkpointer_restore(CheckpointState(state, timer, ds_iter))
       IN  /\ state' = restored.state
           /\ timer' = restored.timer
           /\ UNCHANGED ds_iter
    /\ log' = Append1("restore", None, latest_step)
    /\ pc' = IF initial_step = 0 THEN "startup_writes" ELSE "guard_enter"
    /\ UNCHANGED <<repr_vars, hosts, cfg, visited, ckpts, initial_step, total_steps, hooks, i, ev,
                   batch, aux, guard, exc>>

ckpt_restore ==
    /\ pc = "restore"
    /\ LET restored == Checkpointer_restore(CheckpointState(state, timer, ds_iter))
       IN  /\ state' = restored.state
           /\ timer' = restored.timer
           /\ ds_iter' = restored.ds_iter
    /\ log' = Append1("restore", None, latest_step)
    /\ pc' = IF initial_step = 0 THEN "startup_writes" ELSE "guard_enter"
    /\ UNCHANGED <<repr_vars, hosts, cfg, visited, ckpts, initial_step, total_steps, hooks, i, ev,
                   batch, aux, guard, exc>>

\* if initial_step == 0: writer.write_config(...) ... write_context_structure
startup_writes ==
    /\ pc = "startup_writes"
    /\ log' = log \o <<Event("write_config", None, 0),
                       Event("write_param_overview", None, initial_step),
                       Event("write_element_spec", None, initial_step),
                       Event("write_context_structure", None, initial_step)>>
    /\ pc' = "guard_enter"
    /\ UNCHANGED <<repr_vars, hosts, cfg, visited, ckpts, initial_step, total_steps, hooks, i, ev,
                   state, timer, ds_iter, batch, aux, guard, exc>>

transfer_guard_enter_always_disallow ==
    /\ pc = "guard_enter"
    /\ guard' = "disallow"
    /\ pc' = "enum_start"
    /\ UNCHANGED <<repr_vars, hosts, cfg, visited, ckpts, initial_step, total_steps, hooks, i, ev,
                   state, timer, ds_iter, batch, aux, exc, log>>

\* with _transfer_guard(): jax.transfer_guard("disallow") unless
\* jax.config.jax_disable_jit.  The call of _enum_steps_with_hooks only
\* creates the generator: none of its code runs.
transfer_guard_enter ==
    /\ pc = "guard_enter"
    /\ guard' = IF cfg.jax_disable_jit THEN "off" ELSE "disallow"
    /\ pc' = "enum_start"
    /\ UNCHANGED <<repr_vars, hosts, cfg, visited, ckpts, initial_step, total_steps, hooks, i, ev,
                   state, timer, ds_iter, batch, aux, exc, log>>

\* first resumption of the generator _enum_steps_with_hooks: the check of
\* num_train_steps, total_steps and the registration of the hooks
enum_start ==
    /\ pc = "enum_start"
    /\ IF cfg.num_train_steps = None
          THEN /\ exc' = "ValueError"
               /\ pc' = "failed"
               /\ guard' = "off"
               /\ UNCHANGED <<total_steps, hooks>>
          ELSE /\ total_steps' = total_steps_of(cfg.num_train_steps,
                                                cfg.stop_after_steps)
               /\ hooks' = IF cfg.is_lead_host THEN <<"profiler">> ELSE <<>>
               /\ pc' = "enum_next"
               /\ UNCHANGED <<exc, guard>>
    /\ UNCHANGED <<repr_vars, hosts, cfg, visited, ckpts, initial_step, i, ev, state, timer,
                   ds_iter, batch, aux, log>>

enum_next_without_exhaustion ==
    /\ pc = "enum_next"
    /\ LET n == IF i = None THEN initial_step ELSE i + 1
       IN  /\ n \in enum_iter(initial_step, total_steps)
           /\ i' = n
           /\ visited' = Append(visited, n)
           /\ pc' = "exclude_enter"
    /\ UNCHANGED <<repr_vars, hosts, cfg, ckpts, initial_step, total_steps, hooks, ev,
                   state, timer, ds_iter, batch, aux, guard, exc, log>>

\* utils.enum_iter(repeat(None), init_step=initial_step,
\*                 total_steps=total_steps): the next index, or exhaustion
enum_next ==
    /\ pc = "enum_next"
    /\ LET n == IF i = None THEN initial_step ELSE i + 1
       IN  IF n \in enum_iter(initial_step, total_steps)
              THEN /\ i' = n
                   /\ visited' = Append(visited, n)
                   /\ pc' = "exclude_enter"
              ELSE /\ pc' = "guard_exit"
                   /\ UNCHANGED <<i, visited>>
    /\ UNCHANGED <<repr_vars, hosts, cfg, ckpts, initial_step, total_steps, hooks, ev,
                   state, timer, ds_iter, batch, aux, guard, exc, log>>

\* with timer.exclude_from_step_stats():
exclude_enter ==
    /\ pc = "exclude_enter"
    /\ timer' = [timer EXCEPT !.excluded = TRUE]
    /\ ev' = 1
    /\ pc' = NextPc("exclude_enter")
    /\ UNCHANGED <<repr_vars, hosts, cfg, visited, ckpts, initial_step, total_steps, hooks, i,
                   state, ds_iter, batch, aux, guard, exc, log>>

\* if ckpt.should_save(i): ckpt.save(CheckpointState(state, timer, ds_iter),
\*                                   step=i)
ckpt_save ==
    /\ pc = "save"
    /\ \E should_save \in BOOLEAN :
          IF should_save
             THEN /\ ckpts' = Checkpointer_save(
                                 CheckpointState(state, timer, ds_iter), i)
                  /\ log' = Append1("save", i, state.step)
             ELSE UNCHANGED <<ckpts, log>>
    /\ pc' = NextPc("save")
    /\ UNCHANGED <<repr_vars, hosts, cfg, visited, initial_step, total_steps, hooks, i, ev, state,
                   timer, ds_iter, batch, aux, guard, exc>>

\* for evaluator in trainer.evals.values(): evaluator.maybe_eval(step=i,
\*                                                             state=state)
maybe_eval ==
    /\ pc = "eval"
    /\ ev <= NumEvals
    /\ log' = Append1("maybe_eval", i, state.step)
    /\ ev' = ev + 1
    /\ UNCHANGED <<repr_vars, hosts, cfg, visited, ckpts, pc, initial_step, total_steps, hooks, i,
                   state, timer, ds_iter, batch, aux, guard, exc>>

\* the evaluators are exhausted: leave the with block of the timer
exclude_exit ==
    /\ pc = "eval"
    /\ ev > NumEvals
    /\ timer' = [timer EXCEPT !.excluded = FALSE]
    /\ pc' = NextPc("eval")
    /\ UNCHANGED <<repr_vars, hosts, cfg, visited, ckpts, initial_step, total_steps, hooks, i, ev,
                   state, ds_iter, batch, aux, guard, exc, log>>

\* batch = next(ds_iter)
next_ds_iter ==
    /\ pc = "fetch"
    /\ batch' = ds_iter.cursor
    /\ ds_iter' = [ds_iter EXCEPT !.cursor = @ + 1]
    /\ log' = Append1("fetch", i, ds_iter.cursor)
    /\ pc' = NextPc("fetch")
    /\ UNCHANGED <<repr_vars, hosts, cfg, visited, ckpts, initial_step, total_steps, hooks, i, ev,
                   state, timer, aux, guard, exc>>

\* batch = sharding_lib.device_put(batch, trainer.sharding.ds)
device_put ==
    /\ pc = "device_put"
    /\ log' = Append1("device_put", i, batch)
    /\ pc' = NextPc("device_put")
    /\ UNCHANGED <<repr_vars, hosts, cfg, visited, ckpts, initial_step, total_steps, hooks, i, ev,
                   state, timer, ds_iter, batch, aux, guard, exc>>

trainstep_step_returns_first_aux ==
    /\ pc = "step"
    /\ \E error \in BOOLEAN :
          aux' = IF aux = NoAux
                    THEN [step |-> i, error |-> error, losses |-> log_any(i),
                          metrics |-> log_metrics(i),
                          summaries |-> log_summaries(i)]
                    ELSE [aux EXCEPT !.error = error]
    /\ state' = [step |-> state.step + 1]
    /\ log' = Append1("step", i, batch)
    /\ pc' = NextPc("step")
    /\ UNCHANGED <<repr_vars, hosts, cfg, visited, ckpts, initial_step, total_steps, hooks, i, ev,
                   timer, ds_iter, batch, guard, exc>>

\* state, aux = trainstep.step(state, batch, return_losses=log_any, ...)
trainstep_step ==
    /\ pc = "step"
    /\ \E error \in BOOLEAN :
          aux' = [step |-> i, error |-> error, losses |-> log_any(i),
                  metrics |-> log_metrics(i), summaries |-> log_summaries(i)]
    /\ state' = [step |-> state.step + 1]
    /\ log' = Append1("step", i, batch)
    /\ pc' = NextPc("step")
    /\ UNCHANGED <<repr_vars, hosts, cfg, visited, ckpts, initial_step, total_steps, hooks, i, ev,
                   timer, ds_iter, batch, guard, exc>>

\* timer.finish_step()
timer_finish_step ==
    /\ pc = "finish_step"
    /\ timer' = [timer EXCEPT !.finished = @ + 1]
    /\ log' = Append1("finish_step", i, timer.initial_step_num + timer.finished + 1)
    /\ pc' = NextPc("finish_step")
    /\ UNCHANGED <<repr_vars, hosts, cfg, visited, ckpts, initial_step, total_steps, hooks, i, ev,
                   state, ds_iter, batch, aux, guard, exc>>

checkify_throw_ignores_error ==
    /\ pc = "checkify"
    /\ IF cfg.checkify
          THEN log' = Append1("device_get_error", i, aux.step)
          ELSE UNCHANGED log
    /\ pc' = NextPc("checkify")
    /\ UNCHANGED <<repr_vars, hosts, cfg, visited, ckpts, initial_step, total_steps, hooks, i, ev,
                   state, timer, ds_iter, batch, aux, guard, exc>>

\* if trainer.checkify_error_categories: jax.device_get(aux.error).throw()
checkify_throw ==
    /\ pc = "checkify"
    /\ IF cfg.checkify
          THEN /\ log' = Append1("device_get_error", i, aux.step)
               /\ IF aux.error
                     THEN /\ exc' = "checkify"
                          /\ pc' = "failed"
                          /\ guard' = "off"
                     ELSE /\ pc' = NextPc("checkify")
                          /\ UNCHANGED <<exc, guard>>
          ELSE /\ pc' = NextPc("checkify")
               /\ UNCHANGED <<exc, guard, log>>
    /\ UNCHANGED <<repr_vars, hosts, cfg, visited, ckpts, initial_step, total_steps, hooks, i, ev,
                   state, timer, ds_iter, batch, aux>>

write_step_metrics_on_all_hosts ==
    /\ pc = "write"
    /\ IF log_any(i)
          THEN log' = Append1("write_step_metrics", i,
                              IF log_summaries(i) THEN 1 ELSE 0)
          ELSE UNCHANGED log
    /\ pc' = NextPc("write")
    /\ UNCHANGED <<repr_vars, hosts, cfg, visited, ckpts, initial_step, total_steps, hooks, i, ev,
                   state, timer, ds_iter, batch, aux, guard, exc>>

\* if log_any and status.is_lead_host: writer.write_step_metrics(step=i, ...)
write_step_metrics ==
    /\ pc = "write"
    /\ IF log_any(i) /\ cfg.is_lead_host
          THEN log' = Append1("write_step_metrics", i,
                              IF log_summaries(i) THEN 1 ELSE 0)
          ELSE UNCHANGED log
    /\ pc' = NextPc("write")
    /\ UNCHANGED <<repr_vars, hosts, cfg, visited, ckpts, initial_step, total_steps, hooks, i, ev,
                   state, timer, ds_iter, batch, aux, guard, exc>>

call_hooks_not_after_last_step ==
    /\ pc = "hooks"
    /\ log' = IF i + 1 \in enum_iter(initial_step, total_steps)
                  THEN log \o [k \in 1 .. Len(hooks) |-> Event("hook", i, k)]
                  ELSE log
    /\ pc' = NextPc("hooks")
    /\ UNCHANGED <<repr_vars, hosts, cfg, visited, ckpts, initial_step, total_steps, hooks, i, ev,
                   state, timer, ds_iter, batch, aux, guard, exc>>

\* the generator is resumed after the body of step i: for h in hooks: h(i)
call_hooks ==
    /\ pc = "hooks"
    /\ log' = log \o [k \in 1 .. Len(hooks) |-> Event("hook", i, k)]
    /\ pc' = NextPc("hooks")
    /\ UNCHANGED <<repr_vars, hosts, cfg, visited, ckpts, initial_step, total_steps, hooks, i, ev,
                   state, timer, ds_iter, batch, aux, guard, exc>>

\* the generator is exhausted: leave the with block of _transfer_guard
transfer_guard_exit ==
    /\ pc = "guard_exit"
    /\ guard' = "off"
    /\ pc' = "sentinel"
    /\ UNCHANGED <<repr_vars, hosts, cfg, visited, ckpts, initial_step, total_steps, hooks, i, ev,
                   state, timer, ds_iter, batch, aux, exc, log>>

touch_train_complete_ignores_workdir ==
    /\ pc = "sentinel"
    /\ \E workdir_exists \in BOOLEAN :
          log' = log \o <<Event("workdir_exists", None,
                                IF workdir_exists THEN 1 ELSE 0),
                          Event("touch", None, 0)>>
    /\ pc' = "sync"
    /\ UNCHANGED <<repr_vars, hosts, cfg, visited, ckpts, initial_step, total_steps, hooks, i, ev,
                   state, timer, ds_iter, batch, aux, guard, exc>>

touch_train_complete_only_full ==
    /\ pc = "sentinel"
    /\ \E workdir_exists \in BOOLEAN :
          log' = IF workdir_exists /\ i = cfg.num_train_steps
                    THEN log \o <<Event("workdir_exists", None, 1),
                                  Event("touch", None, 0)>>
                    ELSE Append1("workdir_exists", None,
                                 IF workdir_exists THEN 1 ELSE 0)
    /\ pc' = "sync"
    /\ UNCHANGED <<repr_vars, hosts, cfg, visited, ckpts, initial_step, total_steps, hooks, i, ev,
                   state, timer, ds_iter, batch, aux, guard, exc>>

\* if trainer.workdir.exists(): (workdir / TRAIN_COMPLETE_FILENAME).touch()
touch_train_complete ==
    /\ pc = "sentinel"
    /\ \E workdir_exists \in BOOLEAN :
          log' = IF workdir_exists
                    THEN log \o <<Event("workdir_exists", None, 1),
                                  Event("touch", None, 0)>>
                    ELSE Append1("workdir_exists", None, 0)
    /\ pc' = "sync"
    /\ UNCHANGED <<repr_vars, hosts, cfg, visited, ckpts, initial_step, total_steps, hooks, i, ev,
                   state, timer, ds_iter, batch, aux, guard, exc>>

\* _sync(): with jax.transfer_guard("allow"): ...
sync_enter ==
    /\ pc = "sync"
    /\ guard' = "allow"
    /\ pc' = "sync_block"
    /\ UNCHANGED <<repr_vars, hosts, cfg, visited, ckpts, initial_step, total_steps, hooks, i, ev,
                   state, timer, ds_iter, batch, aux, exc, log>>

\* ... jax.pmap(_psync, "i")(x).block_until_ready(); return state, aux
sync_return ==
    /\ pc = "sync_block"
    /\ guard' = "off"
    /\ log' = Append1("sync", None, 0)
    /\ pc' = "done"
    /\ UNCHANGED <<repr_vars, hosts, cfg, visited, ckpts, initial_step, total_steps, hooks, i, ev,
                   state, timer, ds_iter, batch, aux, exc>>

Raise_swallowed_in_loop ==
    /\ pc \in Failable
    /\ pc = "write" => log_any(i) /\ cfg.is_lead_host
    /\ pc = "hooks" => hooks # <<>>
    /\ exc' = pc
    /\ pc' = IF pc \in {"restore", "startup_writes"} THEN "failed"
             ELSE NextPc(pc)
    /\ timer' = [timer EXCEPT !.excluded = FALSE]
    /\ guard' = IF pc \in {"restore", "startup_writes"} THEN "off" ELSE guard
    /\ UNCHANGED <<repr_vars, hosts, cfg, visited, ckpts, initial_step, total_steps, hooks, i, ev,
                   state, ds_iter, batch, aux, log>>

Raise_keeps_exclusion ==
    /\ pc \in Failable
    /\ pc = "write" => log_any(i) /\ cfg.is_lead_host
    /\ pc = "hooks" => hooks # <<>>
    /\ exc' = pc
    /\ pc' = "failed"
    /\ guard' = "off"
    /\ UNCHANGED <<repr_vars, hosts, cfg, visited, ckpts, initial_step, total_steps, hooks, i, ev,
                   state, timer, ds_iter, batch, aux, log>>

\* the collaborator called at this control point raises: train_impl has no
\* try/except, the exception unwinds the with blocks and leaves train_impl
Raise ==
    /\ pc \in Failable
    /\ pc = "write" => log_any(i) /\ cfg.is_lead_host
    /\ pc = "hooks" => hooks # <<>>
    /\ exc' = pc
    /\ pc' = "failed"
    /\ timer' = [timer EXCEPT !.excluded = FALSE]
    /\ guard' = "off"
    /\ UNCHANGED <<repr_vars, hosts, cfg, visited, ckpts, initial_step, total_steps, hooks, i, ev,
                   state, ds_iter, batch, aux, log>>

\* the process has ended; a new one runs train_impl on the same checkpoint
\* directory, possibly with another stop_after_steps
Restart ==
    /\ pc \in {"done", "failed"}
    /\ \E s \in OptSteps : cfg' = [cfg EXCEPT !.stop_after_steps = s]
    /\ pc' = "setup"
    /\ initial_step' = 0
    /\ total_steps' = 0
    /\ hooks' = <<>>
    /\ i' = None
    /\ ev' = 1
    /\ state' = [step |-> 0]
    /\ timer' = [initial_step_num |-> 0, finished |-> 0, excluded |-> FALSE]
    /\ ds_iter' = [cursor |-> 0]
    /\ batch' = None
    /\ aux' = NoAux
    /\ guard' = "off"
    /\ exc' = "none"
    /\ visited' = <<>>
    /\ log' = <<>>
    /\ UNCHANGED <<repr_vars, hosts, ckpts>>

\* the steps of one run of train_impl
NextRun ==
    \/ setup
    \/ ckpt_restore
    \/ startup_writes
    \/ transfer_guard_enter
    \/ enum_start
    \/ enum_next
    \/ exclude_enter
    \/ ckpt_save
    \/ maybe_eval
    \/ exclude_exit
    \/ next_ds_iter
    \/ device_put
    \/ trainstep_step
    \/ timer_finish_step
    \/ checkify_throw
    \/ write_step_metrics
    \/ call_hooks
    \/ transfer_guard_exit
    \/ touch_train_complete
    \/ sync_enter
    \/ sync_return
    \/ Raise

Next ==
    \/ NextRun
    \/ Restart

Spec == Init /\ [][Next]_vars

\* one run of train_impl in which every call that is made returns or
\* raises, so that the run takes its next step whenever it has one
SpecOneRun == Init /\ [][NextRun]_vars /\ WF_vars(NextRun)

\* ------------------------------------------------------ multi-host run
\* Every host process runs train_impl with the same configuration.  Of each
\* host only its place is kept: in the loop after i steps, at the sentinel,
\* inside _sync, returned, or dead.

train_vars == <<cfg, ckpts, pc, initial_step, total_steps, hooks, i, ev, state,
                timer, ds_iter, batch, aux, guard, exc, visited, log>>

\* steps of a run without cutoff: total_steps - initial_step
HostTotal == total_steps_of(MaxTrainSteps, None) - initial_step_of(None)

\* one iteration of the loop of train_impl on host h
host_step(h) ==
    /\ hosts[h].pc = "loop"
    /\ hosts[h].i < HostTotal
    /\ hosts' = [hosts EXCEPT ![h].i = @ + 1]
    /\ UNCHANGED <<train_vars, repr_vars>>

\* a collaborator raises on host h: the process dies
host_raise(h) ==
    /\ hosts[h].pc = "loop"
    /\ hosts[h].i < HostTotal
    /\ hosts' = [hosts EXCEPT ![h].pc = "failed"]
    /\ UNCHANGED <<train_vars, repr_vars>>

\* the step range is exhausted on host h
host_loop_exit(h) ==
    /\ hosts[h].pc = "loop"
    /\ hosts[h].i = HostTotal
    /\ hosts' = [hosts EXCEPT ![h].pc = "sentinel"]
    /\ UNCHANGED <<train_vars, repr_vars>>

\* the sentinel decision on host h, then the call of _sync
host_touch(h) ==
    /\ hosts[h].pc = "sentinel"
    /\ hosts' = [hosts EXCEPT ![h].pc = "sync"]
    /\ UNCHANGED <<train_vars, repr_vars>>

host_sync_return_without_waiting(h) ==
    /\ hosts[h].pc = "sync"
    /\ hosts' = [hosts EXCEPT ![h].pc = "done"]
    /\ UNCHANGED <<train_vars, repr_vars>>

\* _sync on host h: jax.pmap(psum) over all devices; block_until_ready
\* returns once every host has entered the collective
host_sync_return(h) ==
    /\ hosts[h].pc = "sync"
    /\ \A g \in Hosts : hosts[g].pc \in {"sync", "done"}
    /\ hosts' = [hosts EXCEPT ![h].pc = "done"]
    /\ UNCHANGED <<train_vars, repr_vars>>

InitHosts ==
    /\ cfg = [num_train_steps |-> MaxTrainSteps,
              stop_after_steps |-> None,
              log_metrics_every |-> 1,
              log_summaries_every |-> 1,
              checkify |-> FALSE,
              is_lead_host |-> TRUE,
              jax_disable_jit |-> FALSE]
    /\ InitLocals
    /\ hosts = HostsAtStart
    /\ NoRepr

NextHosts ==
    \E h \in Hosts :
        \/ host_step(h)
        \/ host_raise(h)
        \/ host_loop_exit(h)
        \/ host_touch(h)
        \/ host_sync_return(h)

SpecHosts == InitHosts /\ [][NextHosts]_vars

\* ------------------------------------------------- ConfigDict.__repr__
\* _VisitedTracker.build_repr on an object graph.  Objects are numbered in
\* the order in which the first pass meets them; the number stands for
\* id(obj).  The graph is read as the first pass traverses it: objects the
\* root does not reach play no part.

\* items (dict values, list elements, referenced values) held by all the
\* containers of one graph together
MaxItems == 3

\* any object handled by _DefaultVisitor
Leaf == 0

\* dict, ConfigDict, list or tuple; a dict carrying the const key;
\* FieldReference
Kinds == {"container", "const", "ref"}

Object(kind, arity) == [kind |-> kind, arity |-> arity, children |-> <<>>]

Frame(obj) == [obj |-> obj, k |-> 1]

\* f'{id_:03}': the decimal digits, padded with zeros to three
format_03(id_) ==
    IF id_ < 1000
       THEN <<(id_ \div 100) % 10, (id_ \div 10) % 10, id_ % 10>>
       ELSE <<id_ \div 1000, (id_ \div 100) % 10, (id_ \div 10) % 10,
              id_ % 10>>

Token(pass, op, obj, id_) == [pass |-> pass, op |-> op, obj |-> obj, id |-> id_]

\* _VisitedTracker.track_if_visited(obj): the tracker afterwards and the
\* value returned
track_if_visited(tr, obj) ==
    IF obj \notin DOMAIN tr.pyid_to_id
       THEN [tracker |-> [tr EXCEPT !.pyid_to_id =
                             [n \in DOMAIN @ \cup {obj} |->
                                 IF n = obj THEN None ELSE @[n]]],
             visited |-> FALSE]
    ELSE IF tr.pyid_to_id[obj] = None
       THEN [tracker |-> [tr EXCEPT !.pyid_to_id[obj] = tr.count,
                                    !.count = @ + 1],
             visited |-> TRUE]
    ELSE [tracker |-> tr, visited |-> TRUE]

\* _VisitedTracker.get_id_and_was_repr(obj)
get_id_and_was_repr(tr, obj) ==
    LET id_ == tr.pyid_to_id[obj]
    IN  IF id_ = None
           THEN [tracker |-> tr, id |-> 0, was_repr |-> FALSE]
        ELSE IF id_ \in tr.pyid_was_repr
           THEN [tracker |-> tr, id |-> id_, was_repr |-> TRUE]
        ELSE [tracker |-> [tr EXCEPT !.pyid_was_repr = @ \cup {id_}],
              id |-> id_, was_repr |-> FALSE]

RECURSIVE ItemsUpTo(_, _)
\* the items of the first n objects of g
ItemsUpTo(g, n) == IF n = 0 THEN 0 ELSE g[n].arity + ItemsUpTo(g, n - 1)

AddChild(g, parent, child) ==
    [g EXCEPT ![parent].children = Append(@, child)]

Pop(stk) == SubSeq(stk, 1, Len(stk) - 1)

Visitor_watch_recurses_again(obj, stk) ==
    LET r == track_if_visited(tracker, obj)
    IN  /\ tracker' = r.tracker
        /\ stack' = Append(stk, Frame(obj))
        /\ trace' = Append(trace, Token("watch", "recurse", obj, <<>>))

\* _Visitor.watch(obj), called with the frames stk below it
Visitor_watch(obj, stk) ==
    LET r == track_if_visited(tracker, obj)
    IN  /\ tracker' = r.tracker
        /\ IF r.visited
              THEN /\ stack' = stk
                   /\ trace' = trace
              ELSE /\ stack' = Append(stk, Frame(obj))
                   /\ trace' = Append(trace,
                                      Token("watch", "recurse", obj, <<>>))

\* _Visitor._repr(obj): the tokens it starts with and whether it goes
\* through the items of obj
BodyToken(obj) ==
    Token("repr", IF graph[obj].kind = "const" THEN "const" ELSE "body",
          obj, <<>>)

BodyStack(obj, stk) ==
    IF graph[obj].kind = "const" THEN stk ELSE Append(stk, Frame(obj))

\* _Visitor.repr(obj), called with the frames stk below it
Visitor_repr(obj, stk) ==
    LET r == get_id_and_was_repr(tracker, obj)
    IN  /\ tracker' = r.tracker
        /\ IF r.id # 0
              THEN IF ~r.was_repr
                      THEN /\ trace' = trace \o
                                 <<Token("repr", "&", obj, format_03(r.id)),
                                   BodyToken(obj)>>
                           /\ stack' = BodyStack(obj, stk)
                      ELSE /\ trace' = Append(trace,
                                 Token("repr", "*", obj, format_03(r.id)))
                           /\ stack' = stk
              ELSE /\ trace' = Append(trace, BodyToken(obj))
                   /\ stack' = BodyStack(obj, stk)

Top == stack[Len(stack)]

\* build_repr: self.recurse(obj, is_repr=False)
build_repr_first_pass ==
    /\ phase = "start"
    /\ Visitor_watch(1, <<>>)
    /\ phase' = "watch"
    /\ UNCHANGED <<graph, train_vars, hosts>>

\* _recurse of the first pass reaches the next item of the container on
\* top: a leaf, an object met before, or an object not met before
watch_child ==
    /\ phase = "watch"
    /\ stack # <<>>
    /\ Top.k <= graph[Top.obj].arity
    /\ LET parent == Top.obj
           stk == [stack EXCEPT ![Len(stack)].k = @ + 1]
       IN  \/ /\ graph' = AddChild(graph, parent, Leaf)
              /\ stack' = stk
              /\ UNCHANGED <<tracker, trace>>
           \/ \E c \in 1 .. Len(graph) :
                 /\ graph[parent].kind = "ref" => graph[c].kind # "ref"
                 /\ graph' = AddChild(graph, parent, c)
                 /\ Visitor_watch(c, stk)
           \/ \E kind \in Kinds, arity \in 0 .. MaxItems :
                 /\ ItemsUpTo(graph, Len(graph)) + arity <= MaxItems
                 /\ kind = "ref" => arity = 1
                 /\ graph[parent].kind = "ref" => kind # "ref"
                 /\ graph' = Append(AddChild(graph, parent, Len(graph) + 1),
                                    Object(kind, arity))
                 /\ Visitor_watch(Len(graph) + 1, stk)
    /\ phase' = phase
    /\ UNCHANGED <<train_vars, hosts>>

\* _recurse of the first pass has gone through all items of the container
watch_return ==
    /\ phase = "watch"
    /\ stack # <<>>
    /\ Top.k > graph[Top.obj].arity
    /\ stack' = Pop(stack)
    /\ UNCHANGED <<graph, tracker, phase, trace, train_vars, hosts>>

\* build_repr: return self.recurse(obj, is_repr=True)
build_repr_second_pass ==
    /\ phase = "watch"
    /\ stack = <<>>
    /\ Visitor_repr(1, <<>>)
    /\ phase' = "repr"
    /\ UNCHANGED <<graph, train_vars, hosts>>

\* _recurse of the second pass reaches the next item of the container
repr_child ==
    /\ phase = "repr"
    /\ stack # <<>>
    /\ Top.k <= graph[Top.obj].arity
    /\ LET c == graph[Top.obj].children[Top.k]
           stk == [stack EXCEPT ![Len(stack)].k = @ + 1]
       IN  IF c = Leaf
              THEN /\ trace' = Append(trace, Token("repr", "leaf", Leaf, <<>>))
                   /\ stack' = stk
                   /\ UNCHANGED tracker
              ELSE Visitor_repr(c, stk)
    /\ UNCHANGED <<graph, phase, train_vars, hosts>>

\* _repr of the second pass has the text of all items of the container
repr_return ==
    /\ phase = "repr"
    /\ stack # <<>>
    /\ Top.k > graph[Top.obj].arity
    /\ stack' = Pop(stack)
    /\ UNCHANGED <<graph, tracker, phase, trace, train_vars, hosts>>

\* build_repr returns the text
build_repr_return ==
    /\ phase = "repr"
    /\ stack = <<>>
    /\ phase' = "done"
    /\ UNCHANGED <<graph, tracker, stack, trace, train_vars, hosts>>

\* repr(cfg) is called on a ConfigDict
InitRepr ==
    /\ cfg = [num_train_steps |-> None,
              stop_after_steps |-> None,
              log_metrics_every |-> 1,
              log_summaries_every |-> 1,
              checkify |-> FALSE,
              is_lead_host |-> TRUE,
              jax_disable_jit |-> FALSE]
    /\ InitLocals
    /\ hosts = HostsAtStart
    /\ \E arity \in 0 .. MaxItems : graph = <<Object("container", arity)>>
    /\ tracker = NewTracker
    /\ stack = <<>>
    /\ phase = "start"
    /\ trace = <<>>

NextRepr ==
    \/ build_repr_first_pass
    \/ watch_child
    \/ watch_return
    \/ build_repr_second_pass
    \/ repr_child
    \/ repr_return
    \/ build_repr_return

\* one call of build_repr; every step of it is taken, nothing else runs
SpecRepr == InitRepr /\ [][NextRepr]_vars /\ WF_vars(NextRepr)

\* ------------------------------------------------------------ properties

\* place of a per-step call in the order the specification fixes:
\* save, evaluation, fetch (and placement), step, timer, error check,
\* metrics write, hooks
Rank(op) ==
    CASE op = "save" -> 1
      [] op = "maybe_eval" -> 2
      [] op = "fetch" -> 3
      [] op = "device_put" -> 4
      [] op = "step" -> 5
      [] op = "finish_step" -> 6
      [] op = "device_get_error" -> 7
      [] op = "write_step_metrics" -> 8
      [] op = "hook" -> 9
      [] OTHER -> 0

\* the calls every completed step makes
MandatoryRanks == {Rank("fetch"), Rank("step"), Rank("finish_step")}
                    \cup (IF cfg.is_lead_host THEN {Rank("hook")} ELSE {})

Positions == 1 .. Len(log)

OpsOf(step) == {log[p].op : p \in {q \in Positions : log[q].step = step}}

CountOp(op, upto) == Cardinality({p \in 1 .. upto : log[p].op = op})

Cutoff ==
    /\ cfg.num_train_steps # None
    /\ cfg.stop_after_steps # None
    /\ cfg.stop_after_steps < cfg.num_train_steps

\* The log grows only at its end and by one per-step call at a time, so
\* every call is the last entry, and every two consecutive calls are the
\* last two entries, in the state that follows the later call.
LastEvent == log[Len(log)]

PrevEvent == log[Len(log) - 1]

\* C1: the per-step calls of one run are made in the fixed order save,
\* evaluators, fetch, step, timer, write, hooks (two consecutive calls of
\* the same step are in rank order and skip none of fetch, step, timer),
\* and the first call of step i+1 comes only after step i has made its
\* fetch, step and timer calls, its write when it fires, and, on the lead
\* host, its hook call.
C1_FixedStepOrder ==
    (Len(log) >= 2 /\ PrevEvent.step # None /\ LastEvent.step # None) =>
        LET a == PrevEvent
            b == LastEvent
        IN  \/ /\ a.step = b.step
               /\ \/ Rank(a.op) < Rank(b.op)
                  \/ a.op = "maybe_eval" /\ b.op = "maybe_eval"
               /\ \A r \in MandatoryRanks :
                      ~(Rank(a.op) < r /\ r < Rank(b.op))
            \/ /\ b.step = a.step + 1
               /\ Rank(b.op) <= Rank("maybe_eval")
               /\ \A r \in MandatoryRanks : r <= Rank(a.op)
               /\ log_any(a.step) /\ cfg.is_lead_host
                      => "write_step_metrics" \in OpsOf(a.step)

\* a second step has begun after a first one that saved, evaluated, fetched,
\* stepped, logged and called its hook
C1_Witness ==
    /\ Len(visited) >= 2
    /\ pc = "fetch"
    /\ OpsOf(visited[1]) = {"save", "maybe_eval", "fetch", "device_put", "step",
                            "finish_step", "write_step_metrics", "hook"}
    /\ "save" \in OpsOf(i)

\* C2: when ckpt.save is called at step i, the run has fetched
\* i - initial_step batches and applied as many trainstep.step updates, and
\* the saved iterator cursor equals the saved TrainState's counter.
C2_SaveBeforeFetch ==
    /\ (log # <<>> /\ LastEvent.op = "save") =>
          /\ CountOp("fetch", Len(log)) = LastEvent.step - initial_step
          /\ CountOp("step", Len(log)) = LastEvent.step - initial_step
    /\ \A k \in DOMAIN ckpts : ckpts[k].ds_iter.cursor = ckpts[k].state.step

\* a save at a step after the first of a run that restored a checkpoint
C2_Witness ==
    /\ log # <<>>
    /\ LastEvent.op = "save"
    /\ initial_step > 0
    /\ LastEvent.step > initial_step

\* C3: in every run, restarted from a checkpoint or not, the batch fetched at
\* step s is batch s, the one the uninterrupted run (cursor 0 at step 0)
\* fetches at step s.
C3_ResumeSameBatches ==
    (log # <<>> /\ LastEvent.op = "fetch") => LastEvent.arg = LastEvent.step

\* a run restarted from the checkpoint of step k > 0 has fetched at step k+1
C3_Witness ==
    /\ initial_step > 0
    /\ \E p \in Positions :
          log[p].op = "fetch" /\ log[p].step = initial_step + 1

\* C4: the indices visited are initial_step, initial_step+1, ... in order,
\* all below min(num_train_steps+1, stop_after_steps or infinity), and when
\* the loop has ended all of them up to that limit have been visited.
C4_StepSequence ==
    cfg.num_train_steps # None =>
        LET limit == IF cfg.stop_after_steps = None
                        \/ cfg.stop_after_steps > cfg.num_train_steps + 1
                        THEN cfg.num_train_steps + 1
                        ELSE cfg.stop_after_steps
        IN  /\ \A k \in 1 .. Len(visited) :
                  visited[k] = initial_step + k - 1 /\ visited[k] < limit
            /\ pc \in {"guard_exit", "sentinel", "sync", "sync_block", "done"}
                  => Len(visited) = (IF limit > initial_step
                                        THEN limit - initial_step ELSE 0)

\* a fresh run without cutoff has visited 0 .. num_train_steps and ended, and
\* so has a run cut at stop_after_steps < num_train_steps
C4_Witness ==
    /\ pc = "done"
    /\ cfg.stop_after_steps = None
    /\ visited = [k \in 1 .. MaxTrainSteps + 1 |-> k - 1]

\* a run restored from a checkpoint and cut at stop_after_steps has ended
C4_WitnessCutoff ==
    /\ pc = "done"
    /\ cfg.stop_after_steps # None
    /\ cfg.stop_after_steps <= cfg.num_train_steps
    /\ initial_step > 0
    /\ Len(visited) > 0
    /\ visited[Len(visited)] = cfg.stop_after_steps - 1

Ops == {log[p].op : p \in Positions}

WriterOps == {"write_config", "write_param_overview", "write_element_spec",
              "write_context_structure", "write_step_metrics"}

\* C5 (as claimed): when the configuration error for an undefined
\* num_train_steps is raised, no save, no sentinel and no writer call has
\* happened.  The code raises it at the first resumption of the generator,
\* after the start-up writes.
C5_NoSideEffectBeforeConfigError ==
    exc = "ValueError" => Ops \cap (WriterOps \cup {"save", "touch"}) = {}

\* C6: when train_impl has returned, its last calls were the test of the
\* working directory, the touch of the sentinel exactly when the directory
\* exists, and then the barrier; this at the full length and at the cutoff.
C6_SentinelThenSync ==
    pc = "done" =>
        /\ Len(log) >= 2
        /\ LastEvent.op = "sync"
        /\ \/ /\ PrevEvent.op = "workdir_exists"
              /\ PrevEvent.arg = 0
           \/ /\ Len(log) >= 3
              /\ PrevEvent.op = "touch"
              /\ log[Len(log) - 2].op = "workdir_exists"
              /\ log[Len(log) - 2].arg = 1
        /\ CountOp("touch", Len(log)) <= 1
        /\ CountOp("sync", Len(log)) = 1

\* a run cut by stop_after_steps returned after sentinel and barrier
C6_Witness ==
    /\ pc = "done"
    /\ Cutoff
    /\ visited # <<>>
    /\ PrevEvent.op = "touch"

\* a run returned without a working directory
C6_WitnessNoWorkdir ==
    /\ pc = "done"
    /\ visited # <<>>
    /\ "touch" \notin Ops

\* C7 (as claimed): with stop_after_steps < num_train_steps no completion
\* sentinel is written.
C7_NoSentinelOnCutoff == Cutoff => "touch" \notin Ops

\* C7 (amended): with stop_after_steps < num_train_steps the loop stops
\* below stop_after_steps, and once the sentinel decision is taken the
\* sentinel has been written exactly when the working directory exists.
C7_SentinelOnCutoff ==
    Cutoff =>
        /\ \A k \in 1 .. Len(visited) : visited[k] < cfg.stop_after_steps
        /\ pc \in {"sync", "sync_block", "done"} =>
              /\ "workdir_exists" \in Ops
              /\ "touch" \in Ops
                    <=> \E p \in Positions :
                          log[p].op = "workdir_exists" /\ log[p].arg = 1

\* the loop was cut at stop_after_steps - 1 and the sentinel is written
C7_Witness ==
    /\ Cutoff
    /\ pc = "sync"
    /\ visited # <<>>
    /\ visited[Len(visited)] = cfg.stop_after_steps - 1
    /\ "touch" \in Ops

\* rank of the call made at a control point of the loop body
PcRank(p) ==
    CASE p = "save" -> Rank("save")
      [] p = "eval" -> Rank("maybe_eval")
      [] p = "fetch" -> Rank("fetch")
      [] p = "step" -> Rank("step")
      [] p = "checkify" -> Rank("device_get_error")
      [] p = "write" -> Rank("write_step_metrics")
      [] p = "hooks" -> Rank("hook")
      [] OTHER -> 0

\* C8: once a collaborator (or the deferred-error check) has raised, the
\* run is over: control has left train_impl, no sentinel and no barrier
\* follow, the failing step made no call that comes later in the step order
\* (after a failing evaluator, only earlier evaluators), and no later step
\* began.
C8_FailurePropagates ==
    exc \in Failable \cup {"checkify"} =>
        /\ pc = "failed"
        /\ Ops \cap {"touch", "workdir_exists", "sync"} = {}
        /\ visited # <<>> => visited[Len(visited)] = i
        /\ log # <<>> =>
              \/ LastEvent.step = None /\ i = None
              \/ /\ i # None
                 /\ LastEvent.step \in {None, i - 1, i}
                 /\ LastEvent.step = i =>
                       \/ Rank(LastEvent.op) < PcRank(exc)
                       \/ exc = "eval" /\ LastEvent.op = "maybe_eval"
                       \/ exc = "checkify" /\ LastEvent.op = "device_get_error"

\* the batch fetch of a step after the first raised
C8_Witness ==
    /\ exc = "fetch"
    /\ pc = "failed"
    /\ Len(visited) >= 2
    /\ "save" \in OpsOf(i)

\* C9: with checkify_error_categories enabled, a step that reported an
\* error is followed only by the timer update and the raise: the raise
\* finds the TrainState replaced (counter i+1) and finish_step called for
\* step i.  Without it the error channel is never read and nothing raises
\* for it.
C9_CheckifyRaisesAfterTimer ==
    /\ (cfg.checkify /\ aux.error) =>
          \/ pc \in {"finish_step", "checkify"} /\ exc = "none"
          \/ pc = "failed" /\ exc = "checkify"
    /\ exc = "checkify" =>
          /\ cfg.checkify /\ aux.error /\ aux.step = i
          /\ state.step = i + 1
          /\ timer.initial_step_num + timer.finished = i + 1
          /\ PrevEvent.op = "finish_step" /\ PrevEvent.step = i
    /\ ~cfg.checkify =>
          exc # "checkify" /\ "device_get_error" \notin Ops

\* the raise of a step after the first
C9_Witness ==
    /\ exc = "checkify"
    /\ Len(visited) >= 2

\* without checkify a step reported an error and a later step runs
C9_WitnessDisabled ==
    /\ ~cfg.checkify
    /\ \E p \in Positions : log[p].op = "step" /\ log[p].arg = 0 /\ log[p].step = 0
    /\ aux.error
    /\ pc = "enum_next"
    /\ Len(visited) >= 1

\* C10 (as claimed): when the check raises at a step that logs on the lead
\* host, write_step_metrics of that step has been called.
C10_WriteBeforeRaise ==
    (exc = "checkify" /\ log_any(i) /\ cfg.is_lead_host) =>
        "write_step_metrics" \in OpsOf(i)

\* C10 (amended): when the check raises at step i, even one that logs on
\* the lead host, write_step_metrics of step i has not been called: the
\* check comes after the timer update and before the write.
C10_RaiseBeforeWrite ==
    exc = "checkify" =>
        /\ "finish_step" \in OpsOf(i)
        /\ "write_step_metrics" \notin OpsOf(i)

\* the check raised at a step that logs on the lead host
C10_Witness ==
    /\ exc = "checkify"
    /\ log_any(i)
    /\ cfg.is_lead_host
    /\ i > 0

\* C11: on the lead host a step that reaches the end of its body has called
\* write_step_metrics exactly when i mod log_metrics_every = 0 or
\* i mod log_summaries_every = 0, with log_summaries true exactly when
\* i mod log_summaries_every = 0; and trainstep.step was asked for losses
\* on those steps only, for metrics on the metrics cadence and for
\* summaries on the summaries cadence.
C11_LoggingCadence ==
    /\ (log # <<>> /\ LastEvent.op = "write_step_metrics") =>
          /\ cfg.is_lead_host
          /\ \/ LastEvent.step % cfg.log_metrics_every = 0
             \/ LastEvent.step % cfg.log_summaries_every = 0
          /\ LastEvent.arg = 1 <=> LastEvent.step % cfg.log_summaries_every = 0
    /\ (cfg.is_lead_host /\ pc = "hooks") =>
          ((LastEvent.op = "write_step_metrics" /\ LastEvent.step = i)
              <=> (i % cfg.log_metrics_every = 0
                      \/ i % cfg.log_summaries_every = 0))
    /\ aux.step # None =>
          /\ aux.metrics <=> aux.step % cfg.log_metrics_every = 0
          /\ aux.summaries <=> aux.step % cfg.log_summaries_every = 0
          /\ aux.losses <=> (aux.step % cfg.log_metrics_every = 0
                                \/ aux.step % cfg.log_summaries_every = 0)

\* with both cadences above 1, step 0 logged and step 1 ended without a write
C11_Witness ==
    /\ cfg.is_lead_host
    /\ cfg.log_metrics_every > 1
    /\ cfg.log_summaries_every > 1
    /\ pc = "hooks"
    /\ i = 1
    /\ "write_step_metrics" \in OpsOf(0)
    /\ "write_step_metrics" \notin OpsOf(1)
    /\ ~aux.losses

\* with the summaries cadence alone triggering, the write asks for summaries
C11_WitnessSummariesOnly ==
    /\ cfg.is_lead_host
    /\ pc = "hooks"
    /\ i % cfg.log_metrics_every # 0
    /\ LastEvent.op = "write_step_metrics"
    /\ LastEvent.arg = 1

\* C12: write_step_metrics and the per-step hook are called on the lead host
\* only; a host that is not the lead registers no hook, never makes either
\* call, and still ends each step having made its evaluation, fetch, step
\* and timer calls, over the same indices initial_step, initial_step+1, ...
C12_LeadHostOnly ==
    /\ (log # <<>> /\ LastEvent.op \in {"write_step_metrics", "hook"})
          => cfg.is_lead_host
    /\ ~cfg.is_lead_host =>
          /\ hooks = <<>>
          /\ (pc = "enum_next" /\ i # None) =>
                /\ LastEvent.step = i
                /\ LastEvent.op \in {"finish_step", "device_get_error"}
                /\ {"maybe_eval", "fetch", "step", "finish_step"} \subseteq OpsOf(i)
                /\ visited[Len(visited)] = i
                /\ i = initial_step + Len(visited) - 1

\* a host that is not the lead has ended a second step, one whose cadence
\* triggers, after a save
C12_Witness ==
    /\ ~cfg.is_lead_host
    /\ pc = "enum_next"
    /\ Len(visited) >= 2
    /\ log_any(i)
    /\ "save" \in OpsOf(i)

\* C13: a host has returned from train_impl only when every host has
\* finished its last loop step and entered the final barrier; when a host
\* died before the barrier no host has returned.
C13_BarrierBeforeReturn ==
    /\ \A h \in Hosts :
          hosts[h].pc = "done" =>
              \A g \in Hosts :
                  hosts[g].pc \in {"sync", "done"} /\ hosts[g].i = HostTotal
    /\ (\E g \in Hosts : hosts[g].pc = "failed") =>
          \A h \in Hosts : hosts[h].pc # "done"

\* one host has returned while another is still inside the barrier
C13_Witness ==
    \E h, g \in Hosts : hosts[h].pc = "done" /\ hosts[g].pc = "sync"

\* one host died in the loop and the others wait inside the barrier
C13_WitnessFailed ==
    \E g \in Hosts :
        /\ hosts[g].pc = "failed"
        /\ \A h \in Hosts \ {g} : hosts[h].pc = "sync"

\* C14: the timer is in its excluded state exactly while control is at the
\* checkpoint save or at the evaluators of a step: the scope is entered
\* before the save, left after the last evaluator and left when one of them
\* raises; fetch, step and finish_step run outside it.
C14_ExclusionScope ==
    /\ timer.excluded <=> pc \in {"save", "eval"}
    /\ pc \in {"fetch", "device_put", "step", "finish_step", "failed", "done"}
          => ~timer.excluded

\* an evaluator raised inside the scope of a step after a save
C14_Witness ==
    /\ pc = "failed"
    /\ exc = "eval"
    /\ "save" \in OpsOf(i)
    /\ ~timer.excluded

\* C15: a checkpoint stored under step k holds a TrainState whose counter
\* is k and a timer that has reached step k; ckpt.save at step k is handed
\* the state with counter k; a run that starts from the directory has, once
\* restored, initial_step, the counter of its TrainState and the
\* initial_step_num of its Timer all equal to the newest saved step.
C15_SaveRestoreStep ==
    /\ \A k \in DOMAIN ckpts :
          /\ ckpts[k].state.step = k
          /\ ckpts[k].timer.step_num = k
    /\ (log # <<>> /\ LastEvent.op = "save") => LastEvent.arg = LastEvent.step
    /\ pc \in {"startup_writes", "guard_enter", "enum_start"} =>
          /\ state.step = initial_step
          /\ timer.initial_step_num = initial_step
          /\ latest_step # None => initial_step = latest_step

\* a run restored from a checkpoint saved at a step k > 0
C15_Witness ==
    /\ pc = "guard_enter"
    /\ latest_step # None
    /\ latest_step > 0
    /\ state.step = latest_step
    /\ timer.initial_step_num = latest_step
    /\ LastEvent.op = "restore"

\* the four start-up calls of one run, in program order, directly after
\* the restore of that run
StartupCallsJustMade ==
    /\ Len(log) >= 5
    /\ log[Len(log) - 4].op = "restore"
    /\ log[Len(log) - 3].op = "write_config"
    /\ log[Len(log) - 2].op = "write_param_overview"
    /\ log[Len(log) - 1].op = "write_element_spec"
    /\ log[Len(log)].op = "write_context_structure"

\* C16 (as claimed): at the entry of the loop, a run that restored from an
\* existing checkpoint has made none of the four start-up writer calls, and
\* a run that found no checkpoint has made each exactly once, after its
\* restore and before any loop step.
C16_StartupWritesOnlyWithoutCheckpoint ==
    pc = "guard_enter" =>
        IF latest_step = None
           THEN StartupCallsJustMade
           ELSE LastEvent.op = "restore"

\* C16 (amended): at the entry of the loop, a run whose initial_step is 0,
\* because the directory is empty or because its newest checkpoint was
\* saved at step 0, has made each of the four start-up writer calls exactly
\* once, after its restore and before any loop step; a run that restored
\* from a checkpoint of a step k > 0 has made none of them.
C16_StartupWritesIffInitialStepZero ==
    /\ pc = "guard_enter" =>
          IF initial_step = 0
             THEN StartupCallsJustMade
             ELSE LastEvent.op = "restore" /\ LastEvent.arg = initial_step
    /\ (log # <<>> /\ LastEvent.op = "write_context_structure")
          => StartupCallsJustMade /\ log[Len(log) - 4].arg \in {None, 0}

\* a run restored from a checkpoint saved at step 0 has made the start-up
\* calls again
C16_Witness ==
    /\ pc = "guard_enter"
    /\ latest_step = 0
    /\ state = ckpts[0].state
    /\ StartupCallsJustMade
    /\ log[Len(log) - 4].arg = 0

\* a run restored from a checkpoint of a later step has made none
C16_WitnessLaterStep ==
    /\ pc = "guard_enter"
    /\ initial_step > 0
    /\ LastEvent.op = "restore"

\* C17: when train_impl returns after at least one step, the auxiliaries
\* are those of the last visited step and the state is the one that step
\* produced; when the step range is empty it returns the restored or
\* initial state and auxiliaries None, and the run has made no save,
\* evaluation, fetch, step or hook call.
C17_ReturnsLastStep ==
    pc = "done" =>
        IF visited = <<>>
           THEN /\ initial_step >= total_steps
                /\ aux = NoAux
                /\ state.step = initial_step
                /\ batch = None
                /\ \A k \in DOMAIN log : log[k].step = None
           ELSE /\ aux.step = visited[Len(visited)]
                /\ aux.step = total_steps - 1
                /\ state.step = aux.step + 1

\* a run of two steps has returned
C17_Witness ==
    /\ pc = "done"
    /\ Len(visited) = 2
    /\ aux.step = visited[2]

\* a run whose checkpoint lies beyond the cutoff has returned
C17_WitnessEmptyRange ==
    /\ pc = "done"
    /\ visited = <<>>
    /\ latest_step # None
    /\ initial_step > total_steps
    /\ aux = NoAux

\* control points inside the with block of _transfer_guard
InGuardedLoop == {"enum_start", "enum_next", "guard_exit"}
                     \cup {BodyOrder[k] : k \in DOMAIN BodyOrder}

\* control points of train_impl outside that block and outside _sync
OutsideLoop == {"setup", "restore", "startup_writes", "guard_enter",
                "sentinel", "sync", "done", "failed"}

\* C18 (as claimed): in every run the guard is "disallow" at every control
\* point of the loop, it is not in force before and after the loop nor
\* after a failure, and transfers are allowed only inside the barrier.
C18_GuardDisallowInEveryRun ==
    /\ pc \in InGuardedLoop => guard = "disallow"
    /\ pc \in OutsideLoop => guard = "off"
    /\ guard = "allow" <=> pc = "sync_block"

\* C18 (amended): the guard is "disallow" at every control point of the
\* loop when jit is enabled, and not in force there when
\* jax.config.jax_disable_jit is set; in both cases it is not in force
\* before and after the loop nor after a failure, and transfers are
\* allowed only inside the barrier.
C18_GuardDisallowUnlessJitDisabled ==
    /\ pc \in InGuardedLoop =>
          guard = IF cfg.jax_disable_jit THEN "off" ELSE "disallow"
    /\ pc \in OutsideLoop => guard = "off"
    /\ guard = "allow" <=> pc = "sync_block"

\* a step runs with jit disabled and no guard in force
C18_Witness ==
    /\ pc = "finish_step"
    /\ cfg.jax_disable_jit
    /\ guard = "off"
    /\ LastEvent.op = "step"

\* a step fails under the guard and the guard is released
C18_WitnessReleased ==
    /\ pc = "failed"
    /\ exc = "step"
    /\ ~cfg.jax_disable_jit
    /\ guard = "off"

\* C19: every evaluator call of step i receives the state whose counter is
\* i, the state before the update of step i; when control reaches the fetch
\* of step i, each of the evaluators has been called exactly once for
\* step i, whether or not a checkpoint was saved at i.
C19_EvalSeesStateBeforeStep ==
    /\ (log # <<>> /\ LastEvent.op = "maybe_eval") =>
          /\ LastEvent.step = i
          /\ LastEvent.arg = i
          /\ state.step = i
    /\ pc = "fetch" =>
          /\ Len(log) >= NumEvals
          /\ \A k \in 0 .. NumEvals - 1 :
                /\ log[Len(log) - k].op = "maybe_eval"
                /\ log[Len(log) - k].step = i
          /\ Len(log) > NumEvals =>
                ~ /\ log[Len(log) - NumEvals].op = "maybe_eval"
                  /\ log[Len(log) - NumEvals].step = i

\* the evaluators of the second step of a run have been called, after a
\* save at that step
C19_Witness ==
    /\ pc = "fetch"
    /\ Len(visited) = 2
    /\ state.step = i
    /\ Len(log) > NumEvals
    /\ log[Len(log) - NumEvals].op = "save"
    /\ log[Len(log) - NumEvals].step = i
    /\ LastEvent.op = "maybe_eval"

\* the same without a save at that step
C19_WitnessNoSave ==
    /\ pc = "fetch"
    /\ Len(visited) = 2
    /\ "save" \notin OpsOf(i)
    /\ LastEvent.op = "maybe_eval"
    /\ LastEvent.arg = i

\* the loop visits only indices below total_steps, hence at most
\* num_train_steps and below the cutoff; it is left only when the range is
\* exhausted or by an exception; a run that returned has raised nothing
C20_BoundedLoop ==
    /\ i # None =>
          /\ i \in enum_iter(initial_step, total_steps)
          /\ i <= cfg.num_train_steps
          /\ cfg.stop_after_steps # None => i < cfg.stop_after_steps
    /\ pc \in {"guard_exit", "sentinel", "sync", "sync_block", "done"} =>
          /\ exc = "none"
          /\ cfg.num_train_steps # None
          /\ (IF i = None THEN initial_step ELSE i + 1)
                 \notin enum_iter(initial_step, total_steps)
    /\ pc = "failed" <=> exc # "none"

\* C20: when every call returns or raises, every run of train_impl
\* eventually ends, by returning or by a fatal error; it never visits an
\* index at or beyond total_steps and leaves the loop only when the step
\* range is exhausted or an exception is raised.
C20_RunEnds ==
    /\ []C20_BoundedLoop
    /\ <>(pc \in {"done", "failed"})

\* a run of two steps has returned at the stop_after_steps cutoff
C20_Witness ==
    /\ pc = "done"
    /\ cfg.stop_after_steps # None
    /\ cfg.stop_after_steps <= cfg.num_train_steps
    /\ total_steps = cfg.stop_after_steps
    /\ Len(visited) = 2

\* a run has returned after step num_train_steps
C20_WitnessFullRange ==
    /\ pc = "done"
    /\ cfg.stop_after_steps = None
    /\ visited # <<>>
    /\ visited[Len(visited)] = cfg.num_train_steps

\* C21: every visited index runs one trainstep.step, the last index
\* included: after the body of step i the state counter is i + 1, and a run
\* that returns has made total_steps - initial_step updates (none when the
\* range is empty); a run that started without a checkpoint and without
\* cutoff has made num_train_steps + 1 updates and returns the counter
\* num_train_steps + 1.
C21_InclusiveLastStep ==
    /\ pc \in {"finish_step", "checkify", "write", "hooks"} =>
          /\ state.step = i + 1
          /\ state.step = initial_step + Len(visited)
    /\ pc = "done" =>
          /\ Len(visited) = IF total_steps > initial_step
                                THEN total_steps - initial_step ELSE 0
          /\ state.step = initial_step + Len(visited)
          /\ (log[1].arg = None /\ cfg.stop_after_steps = None) =>
                /\ Len(visited) = cfg.num_train_steps + 1
                /\ visited[Len(visited)] = cfg.num_train_steps
                /\ state.step = cfg.num_train_steps + 1

\* a run without checkpoint and without cutoff has returned after
\* num_train_steps + 1 updates
C21_Witness ==
    /\ pc = "done"
    /\ log[1].op = "restore"
    /\ log[1].arg = None
    /\ cfg.stop_after_steps = None
    /\ cfg.num_train_steps = MaxTrainSteps
    /\ state.step = MaxTrainSteps + 1
    /\ aux.step = MaxTrainSteps

\* C22: when a run that made at least one step has left the loop, every
\* checkpoint of the directory, those the run saved included, holds a
\* state at least one update behind the state the run returns and a
\* dataset cursor at least one batch behind; the last call before the loop
\* is left is never a save.
C22_NoSaveAfterLastStep ==
    (pc \in {"guard_exit", "sentinel", "sync", "sync_block", "done"}
        /\ visited # <<>>) =>
        /\ \A k \in DOMAIN ckpts :
              /\ k <= visited[Len(visited)]
              /\ ckpts[k].state.step + 1 <= state.step
              /\ ckpts[k].ds_iter.cursor + 1 <= ds_iter.cursor
        /\ pc = "guard_exit" => LastEvent.op # "save"

\* a run has returned after saving at its last step
C22_Witness ==
    /\ pc = "done"
    /\ visited # <<>>
    /\ "save" \in OpsOf(visited[Len(visited)])
    /\ latest_step = visited[Len(visited)]
    /\ state.step = ckpts[latest_step].state.step + 1

\* C23: with checkify enabled, a step that reported an error is followed
\* only by the timer update and the raise, so whenever control is at the
\* save or at the evaluators of a step, or anywhere else outside the end of
\* a step body, the auxiliaries of the step that produced the current state
\* report no error: a save or an evaluator call without error-free
\* predecessor does not happen.
C23_NoSaveOrEvalAfterError ==
    cfg.checkify =>
        /\ (aux # NoAux /\ aux.error) =>
              pc \in {"finish_step", "checkify", "failed"}
        /\ (log # <<>> /\ LastEvent.op \in {"save", "maybe_eval"}) =>
              /\ ~aux.error
              /\ aux # NoAux => aux.step = LastEvent.step - 1

\* the second step of a run reported an error and the run has failed; the
\* first step had passed the check
C23_Witness ==
    /\ cfg.checkify
    /\ pc = "failed"
    /\ exc = "checkify"
    /\ Len(visited) = 2
    /\ aux.error
    /\ aux.step = visited[2]
    /\ state.step = aux.step + 1

\* C24: a hook call is made only on the lead host, once per step, directly
\* after the last call of that step's body, and it is the call of the
\* current step until the next index is taken; on the lead
\* host the body of a step is entered, and the loop is left, directly after
\* the hook call of the step before, so the hook of the last step precedes
\* the sentinel; a run that failed in the body of step i has made no hook
\* call for i.
C24_HookAfterEachCompletedStep ==
    /\ (log # <<>> /\ LastEvent.op = "hook") =>
          /\ cfg.is_lead_host
          /\ LastEvent.step =
                IF pc \in {"exclude_enter", "save", "eval", "failed"}
                   THEN i - 1 ELSE i
          /\ PrevEvent.step = LastEvent.step
          /\ PrevEvent.op \in {"finish_step", "device_get_error",
                                "write_step_metrics"}
    /\ (cfg.is_lead_host /\ pc = "exclude_enter" /\ Len(visited) >= 2) =>
          /\ LastEvent.op = "hook"
          /\ LastEvent.step = visited[Len(visited) - 1]
          /\ LastEvent.step < i
    /\ (cfg.is_lead_host /\ pc \in {"guard_exit", "sentinel"}
            /\ visited # <<>>) =>
          /\ LastEvent.op = "hook"
          /\ LastEvent.step = visited[Len(visited)]
    /\ (pc = "failed" /\ log # <<>>) =>
          ~(LastEvent.op = "hook" /\ LastEvent.step = i)

\* the lead host has left the loop after two steps: the hook of the last
\* step has been called and the sentinel is not yet written
C24_Witness ==
    /\ cfg.is_lead_host
    /\ pc = "sentinel"
    /\ Len(visited) = 2
    /\ LastEvent.op = "hook"
    /\ LastEvent.step = visited[2]

\* the body of the second step raised: the last hook call is that of the
\* first step
C24_WitnessBodyRaised ==
    /\ cfg.is_lead_host
    /\ pc = "failed"
    /\ exc = "step"
    /\ Len(visited) = 2
    /\ "hook" \in OpsOf(visited[1])
    /\ "hook" \notin OpsOf(visited[2])

\* ------------------------------------------- ConfigDict.__repr__ claims

Objects == 1 .. Len(graph)

\* the places that hold obj: items of containers, and the call of
\* build_repr for the root
ItemsHolding(obj) ==
    {pk \in Objects \X (1 .. MaxItems) :
        /\ pk[2] <= Len(graph[pk[1]].children)
        /\ graph[pk[1]].children[pk[2]] = obj}

Refs(obj) == Cardinality(ItemsHolding(obj)) + (IF obj = 1 THEN 1 ELSE 0)

TokensOf(pass, op, obj) ==
    {j \in DOMAIN trace :
        trace[j].pass = pass /\ trace[j].op = op /\ trace[j].obj = obj}

\* the places holding obj whose container had its items printed
PrintedRefs(obj) ==
    Cardinality({pk \in ItemsHolding(obj) :
                    TokensOf("repr", "body", pk[1]) # {}})
        + (IF obj = 1 THEN 1 ELSE 0)

IdOf(obj) == tracker.pyid_to_id[obj]

\* the one '&idNNN' of obj carries its id and is followed by its body, and
\* every '*idNNN' of obj carries its id and comes later
AnchorThenAliases(obj) ==
    /\ Cardinality(TokensOf("repr", "&", obj)) = 1
    /\ \A j \in TokensOf("repr", "&", obj) :
          /\ trace[j].id = format_03(IdOf(obj))
          /\ trace[j + 1].obj = obj
          /\ trace[j + 1].op \in {"body", "const"}
          /\ \A m \in TokensOf("repr", "*", obj) :
                m > j /\ trace[m].id = trace[j].id

\* neither pass goes through the items of one object twice, and the ids
\* given so far are distinct and at least 1
NoSecondDescent ==
    /\ \A obj \in Objects :
          /\ Cardinality(TokensOf("watch", "recurse", obj)) <= 1
          /\ Cardinality(TokensOf("repr", "body", obj)
                             \cup TokensOf("repr", "const", obj)) <= 1
    /\ \A n, m \in DOMAIN tracker.pyid_to_id :
          IdOf(n) # None =>
              /\ IdOf(n) >= 1
              /\ IdOf(n) < tracker.count
              /\ (m # n => IdOf(m) # IdOf(n))

\* C25 (as claimed): neither pass goes through one object twice, and when
\* build_repr has returned, every object held in more than one place has
\* an id, its body printed once behind '&idNNN' and each of its other
\* occurrences printed as '*idNNN'; no other object has an id.
C25_EveryDuplicateAnchoredOnce ==
    /\ NoSecondDescent
    /\ phase = "done" =>
          \A obj \in Objects :
              IF Refs(obj) >= 2
                 THEN /\ IdOf(obj) # None
                      /\ AnchorThenAliases(obj)
                      /\ Cardinality(TokensOf("repr", "*", obj))
                             = Refs(obj) - 1
                 ELSE /\ IdOf(obj) = None
                      /\ TokensOf("repr", "&", obj) = {}
                      /\ TokensOf("repr", "*", obj) = {}

\* the same for the objects the printing pass reaches: places inside a
\* dict printed by its const key are not printed
C25_PrintedDuplicateAnchoredOnce ==
    /\ NoSecondDescent
    /\ phase = "done" =>
          \A obj \in Objects :
              /\ IdOf(obj) # None <=> Refs(obj) >= 2
              /\ IF IdOf(obj) # None /\ PrintedRefs(obj) >= 1
                    THEN /\ AnchorThenAliases(obj)
                         /\ Cardinality(TokensOf("repr", "*", obj))
                                = PrintedRefs(obj) - 1
                    ELSE /\ TokensOf("repr", "&", obj) = {}
                         /\ TokensOf("repr", "*", obj) = {}
                         /\ Cardinality(TokensOf("repr", "body", obj)
                                \cup TokensOf("repr", "const", obj))
                                = PrintedRefs(obj)

\* C25 (amended): build_repr terminates on every graph, cycles and shared
\* objects included, neither pass going through one object twice; every
\* object held in more than one place gets its own id >= 1; every such
\* object that the printing pass reaches has its body printed once behind
\* '&idNNN' and its other printed occurrences as '*idNNN'; an object held
\* only inside a dict that is printed by its const key is not printed.
C25_CycleSafeRepr ==
    /\ []C25_PrintedDuplicateAnchoredOnce
    /\ <>(phase = "done")

\* a cycle through the root has been printed: the root is anchored and its
\* occurrence inside itself is an alias
C25_Witness ==
    /\ phase = "done"
    /\ TokensOf("repr", "&", 1) # {}
    /\ TokensOf("repr", "*", 1) # {}
    /\ \E obj \in Objects \ {1} :
          /\ 1 \in {graph[obj].children[k] : k \in DOMAIN graph[obj].children}
          /\ TokensOf("repr", "body", obj) # {}

\* an object held twice, inside a dict printed by its const key only, has
\* an id and is not printed
C25_WitnessHiddenByConst ==
    /\ phase = "done"
    /\ \E obj \in Objects :
          /\ IdOf(obj) # None
          /\ PrintedRefs(obj) = 0
          /\ TokensOf("repr", "&", obj) = {}

====
